---------------------------- MODULE Spec2Model ----------------------------
(***************************************************************************)
(* Pushover driver of shell_test_10_final.py: model construction           *)
(* (create_model, fix_at), one load step (static_analysis) and the         *)
(* convergence-gated export loop (main).                                   *)
(***************************************************************************)
EXTENDS Integers, Sequences, FiniteSets, TLC

(***************************************************************************)
(* IEEE-754 binary64 values in [0, 8).                                     *)
(* A value is <<i, a, b, c>> and stands for                                *)
(*     i + (a * 2^36 + b * 2^18 + c) / 2^54                                *)
(* with 0 <= a, b, c < 2^18.  Every double the ramp produces (0.45 and its *)
(* running sums, 5.0, the results of round(p, 3)) is a multiple of 2^-54,  *)
(* so the representation is exact; the operators below round to 53         *)
(* significant bits, ties to even, as the hardware addition does.          *)
(***************************************************************************)
Limb == 2^18

HalfLimb == 2^17

\* carries propagated from the low limb upward
Norm(x) ==
    LET c0 == x[4]
        b0 == x[3] + (c0 \div Limb)
        a0 == x[2] + (b0 \div Limb)
    IN  <<x[1] + (a0 \div Limb), a0 % Limb, b0 % Limb, c0 % Limb>>

\* number of low fraction bits (of the 54) a double of this binade cannot hold
DropBits(x) ==
    IF x[1] >= 4 THEN 4
    ELSE IF x[1] >= 2 THEN 3
    ELSE IF x[1] = 1 THEN 2
    ELSE IF x[2] >= HalfLimb THEN 1
    ELSE 0

\* round-to-nearest, ties-to-even, of the exact value x + t, where the tail t
\* below 2^-54 is 0 (tail = 0), under 2^-55 (1), exactly 2^-55 (2) or over (3)
FRound(x, tail) ==
    LET k    == DropBits(x)
        unit == 2^k
        q    == x[4] \div unit
        r    == x[4] % unit
        half == unit \div 2
        up   == IF k = 0
                THEN tail = 3 \/ (tail = 2 /\ q % 2 = 1)
                ELSE \/ r > half
                     \/ r = half /\ tail # 0
                     \/ r = half /\ tail = 0 /\ q % 2 = 1
    IN  Norm(<<x[1], x[2], x[3], (q + (IF up THEN 1 ELSE 0)) * unit>>)

\* x + y as the float addition computes it
FAdd(x, y) ==
    FRound(Norm(<<x[1] + y[1], x[2] + y[2], x[3] + y[3], x[4] + y[4]>>), 0)

\* float(k) * x for a small natural k
FMulNat(k, x) ==
    FRound(Norm(<<k * x[1], k * x[2], k * x[3], k * x[4]>>), 0)

\* x <= y
FLe(x, y) ==
    \/ x[1] < y[1]
    \/ x[1] = y[1] /\ x[2] < y[2]
    \/ x[1] = y[1] /\ x[2] = y[2] /\ x[3] < y[3]
    \/ x[1] = y[1] /\ x[2] = y[2] /\ x[3] = y[3] /\ x[4] <= y[4]

\* the decimal with three places nearest to x (ties to even), in thousandths:
\* the string the correctly rounded conversion inside round(x, 3) produces
Thousandths(x) ==
    LET w    == Norm(<<1000 * x[1], 1000 * x[2], 1000 * x[3], 1000 * x[4]>>)
        tie  == w[2] = HalfLimb /\ w[3] = 0 /\ w[4] = 0
        up   == IF tie THEN w[1] % 2 = 1 ELSE w[2] >= HalfLimb
    IN  w[1] + (IF up THEN 1 ELSE 0)

\* the double nearest to t / 1000 (the string-to-double step of round(x, 3)),
\* for t = 0 or t >= 250 (below 0.25 a double is finer than 2^-54)
FromThousandths(t) ==
    LET r0 == t % 1000
        a  == (r0 * Limb) \div 1000
        r1 == (r0 * Limb) % 1000
        b  == (r1 * Limb) \div 1000
        r2 == (r1 * Limb) % 1000
        c  == (r2 * Limb) \div 1000
        r3 == (r2 * Limb) % 1000
        tail == IF r3 = 0 THEN 0
                ELSE IF 2 * r3 < 1000 THEN 1
                ELSE IF 2 * r3 = 1000 THEN 2
                ELSE 3
    IN  FRound(<<t \div 1000, a, b, c>>, tail)

\* round(x, 3)
Round3(x) == FromThousandths(Thousandths(x))

\* the literals 0.0, 0.45 and 5.0 of main()
P0 == <<0, 0, 0, 0>>

DP == <<0, 117964, 209715, 52429>>

PMax == <<5, 0, 0, 0>>

(***************************************************************************)
(* create_model: the mesh, the edge frame and the boundary conditions.     *)
(* Lengths are integers in units of 1 / (1000 * nx * ny) inch, so that the *)
(* bilinear mesh positions between the four corner points are exact.       *)
(***************************************************************************)
nx == 10

ny == 10

Scale == nx * ny

\* the four corner points of create_model, in thousandths of an inch
points ==
    [k \in 1..4 |->
        CASE k = 1 -> <<0, 0, 0>>
          [] k = 2 -> <<-(33282 * 12), 0, 49923 * 12>>
          [] k = 3 -> <<0, 0, 72111 * 12>>
          [] k = 4 -> <<33282 * 12, 0, 22077 * 12>>]

DOFs == 1..6

NodeTag(i, j) == 1 + i + j * (nx + 1)

NodeTags == 1..((nx + 1) * (ny + 1))

GridI(n) == (n - 1) % (nx + 1)

GridJ(n) == (n - 1) \div (nx + 1)

\* position of mesh node n: the corner points blended over the (nx, ny) grid
SurfaceCoord(n) ==
    LET i == GridI(n)
        j == GridJ(n)
    IN  [c \in 1..3 |->
            (nx - i) * (ny - j) * points[1][c] + i * (ny - j) * points[2][c]
            + i * j * points[3][c] + (nx - i) * j * points[4][c]]

\* the ShellMITC4 elements of the surface, one per grid cell, row by row
SurfaceElements ==
    [e \in 1..(nx * ny) |->
        LET i == (e - 1) % nx
            j == (e - 1) \div nx
        IN  [type |-> "ShellMITC4",
             nodes |-> <<NodeTag(i, j), NodeTag(i + 1, j),
                         NodeTag(i + 1, j + 1), NodeTag(i, j + 1)>>]]

\* surface.walk_edge(): the perimeter, one node pair per boundary segment
WalkEdge ==
    [i \in 1..nx |-> <<NodeTag(i - 1, 0), NodeTag(i, 0)>>]
    \o [j \in 1..ny |-> <<NodeTag(nx, j - 1), NodeTag(nx, j)>>]
    \o [i \in 1..nx |-> <<NodeTag(nx - i + 1, ny), NodeTag(nx - i, ny)>>]
    \o [j \in 1..ny |-> <<NodeTag(0, ny - j + 1), NodeTag(0, ny - j)>>]

\* the PrismFrame elements added by the loop over surface.walk_edge()
EdgeFrames ==
    [k \in 1..Len(WalkEdge) |-> [type |-> "PrismFrame", nodes |-> WalkEdge[k]]]

Abs(v) == IF v < 0 THEN -v ELSE v

Max(u, v) == IF u >= v THEN u ELSE v

\* math.isclose(a, b, abs_tol=tol) on integer-valued coordinates: the default
\* rel_tol = 1e-09 stays in force beside the absolute tolerance
IsClose(a, b, tol) ==
    \/ a = b
    \/ Abs(a - b) <= Max(Abs(a), Abs(b)) \div 1000000000
    \/ Abs(a - b) <= tol

\* math.isclose raises ValueError for a negative tolerance
IsCloseRaises(tol) == tol < 0

\* a node taken when any one axis is close
FixAtMatchesAnyAxis(model, x0, y0, z0, tol) ==
    {nid \in model.nodes :
        \/ IsClose(model.coord[nid][1], x0, tol)
        \/ IsClose(model.coord[nid][2], y0, tol)
        \/ IsClose(model.coord[nid][3], z0, tol)}

\* the list `fixed` of fix_at
FixAtMatches(model, x0, y0, z0, tol) ==
    {nid \in model.nodes :
        /\ IsClose(model.coord[nid][1], x0, tol)
        /\ IsClose(model.coord[nid][2], y0, tol)
        /\ IsClose(model.coord[nid][3], z0, tol)}

\* fix_at: the exception is raised at the first node looked at, before any
\* model.fix; otherwise every matching node gets all six DOF fixed
FixAt(model, x0, y0, z0, tol) ==
    IF model.nodes # {} /\ IsCloseRaises(tol)
    THEN [raised |-> TRUE, model |-> model]
    ELSE LET fixed == FixAtMatches(model, x0, y0, z0, tol)
         IN  [raised |-> FALSE,
              model |-> [model EXCEPT !.fix =
                  [n \in model.nodes |->
                      IF n \in fixed THEN DOFs ELSE model.fix[n]]]]

\* model.fixZ(z, 1,1,1, 1,1,1)
FixZ(model, z) ==
    [model EXCEPT !.fix =
        [n \in model.nodes |->
            IF model.coord[n][3] = z THEN DOFs ELSE model.fix[n]]]

\* lines 15-98, the body of create_model: surface, edge frame, fixities
ModelAsBuilt ==
    LET m0 == [nodes |-> NodeTags,
               coord |-> [n \in NodeTags |-> SurfaceCoord(n)],
               eles  |-> SurfaceElements \o EdgeFrames,
               fix   |-> [n \in NodeTags |-> {}]]
        m1 == FixZ(m0, 0)
        m2 == FixZ(m1, 72111 * 12 * Scale)
        m3 == FixAt(m2, -(33282 * 12) * Scale, 0, 49923 * 12 * Scale, 100 * Scale).model
        m4 == FixAt(m3, 33282 * 12 * Scale, 0, 22077 * 12 * Scale, 100 * Scale).model
        m5 == FixAt(m4, 0, 0, 360555 * 12 * (Scale \div 10), 1000 * Scale).model
    IN  m5

\* create_model(walk_edge): the argument is never read
CreateModel(walk_edge) == ModelAsBuilt

\* the PrismFrame elements of a Model
FrameElements(model) ==
    {e \in 1..Len(model.eles) : model.eles[e].type = "PrismFrame"}

(***************************************************************************)
(* static_analysis: the load commands and the one analysis step.           *)
(***************************************************************************)
FZero == [neg |-> FALSE, mag |-> P0]

FNeg(x) == [neg |-> TRUE, mag |-> x]

\* model.load(nid, 0.0, -p, 0.0, 0.0, 0.0, 0.0, pattern=1)
LoadCmd(nid, x) ==
    [node |-> nid, force |-> <<FZero, FNeg(x), FZero, FZero, FZero, FZero>>,
     pattern |-> 1]

\* one command per element, on its first node only
LoadsFromFirstNode(eles, x) ==
    [e \in 1..Len(eles) |-> [k \in 1..1 |-> LoadCmd(eles[e].nodes[k], x)]]

\* the load commands of the two nested loops: for each element in turn (outer
\* sequence), one command per node slot of the element (inner sequence)
LoadsFrom(eles, x) ==
    [e \in 1..Len(eles) |->
        [k \in 1..Len(eles[e].nodes) |-> LoadCmd(eles[e].nodes[k], x)]]

\* the (element, slot) positions of the load commands issued
LoadSlots(loads) ==
    UNION {{<<e, k>> : k \in 1..Len(loads[e])} : e \in 1..Len(loads)}

\* the numerical recipe handed to the engine before analyze(1)
Recipe ==
    [integrator |-> "LoadControl", test |-> "NormDispIncr",
     algorithm |-> "Newton", numberer |-> "RCM", constraints |-> "Plain",
     system |-> "SparseGeneral", analysis |-> "Static"]

\* what the engine may answer to analyze(1): a status (0 = converged), or an
\* exception
EngineOutcomes ==
    {[raise |-> FALSE, status |-> st] : st \in {-3, 0, 1}}
    \cup {[raise |-> TRUE, status |-> 0]}

\* static_analysis(model, x) when the engine answers `outcome` to analyze(1):
\* the commands issued, the number of analysis steps run, and what comes back
StaticAnalysis(model, x, outcome) ==
    [series   |-> <<"Linear", 1>>,
     pattern  |-> <<"Plain", 1, 1>>,
     loads    |-> LoadsFrom(model.eles, x),
     recipe   |-> Recipe,
     analyzed |-> 1,
     raised   |-> outcome.raise,
     ret      |-> outcome.status]

(***************************************************************************)
(* main: the state of one run.                                             *)
(***************************************************************************)
VARIABLES
    pc,          \* position in main(), or how main() ended
    p,           \* current pressure
    itr,         \* step counter
    target_nid,  \* the tracked node read at the prompt
    models,      \* every Model created so far, in order of creation
    calls,       \* every static_analysis call made so far
    coordFile,   \* node_coordinates.csv
    snapshots,   \* node_displacements_{itr}_nonlinear.csv, by itr
    history,     \* node_{target}_disp_history_nonlinear.csv
    h            \* state of a single call of fix_at or static_analysis

vars == <<pc, p, itr, target_nid, models, calls, coordFile, snapshots, history, h>>

mainVars == <<pc, p, itr, target_nid, models, calls, coordFile, snapshots, history>>

NoFile == [exists |-> FALSE, header |-> <<>>, rows |-> <<>>]

\* the integers typed at the prompt: two nodes of the mesh and one that is none
TrackChoices == {1, 61, (nx + 1) * (ny + 1) + 1}

\* model.nodeDisp(nid, dof) of the solved Model number m
NodeDisp(m, nid, dof) == <<m, nid, dof>>

Init ==
    /\ pc = "start"
    /\ p = P0
    /\ itr = 1
    /\ target_nid = 0
    /\ models = <<>>
    /\ calls = <<>>
    /\ coordFile = NoFile
    /\ snapshots = <<>>
    /\ history = NoFile
    /\ h = [pc |-> "idle"]

\* lines 135-137: the rows of node_coordinates.csv, written from Model number
\* f.model
CoordRows(f) ==
    LET model == CreateModel(models[f.model].walk_edge)
    IN  [n \in 1..Cardinality(model.nodes) |->
            <<n, model.coord[n][1], model.coord[n][2], model.coord[n][3]>>]

\* lines 130-138: model0 and node_coordinates.csv
Startup ==
    /\ pc = "start"
    /\ models' = <<[walk_edge |-> FALSE, analyzed |-> 0]>>
    /\ coordFile' = [exists |-> TRUE, header |-> <<"Node", "x", "y", "z">>,
                     model |-> 1]
    /\ pc' = "prompt"
    /\ UNCHANGED <<p, itr, target_nid, calls, snapshots, history, h>>

\* lines 141-155: the prompt, the history file and its header, p, dp, itr
ReadTarget ==
    /\ pc = "prompt"
    /\ \E t \in TrackChoices : target_nid' = t
    /\ history' = [exists |-> TRUE,
                   header |-> <<"Iteration", "p", "ux", "uy", "uz">>,
                   rows   |-> <<>>]
    /\ p' = P0
    /\ itr' = 1
    /\ pc' = "loop"
    /\ UNCHANGED <<models, calls, coordFile, snapshots, h>>

\* one step too many
LoopGuardOneMore == FLe(p, FAdd(PMax, DP))

\* line 156
LoopGuard == FLe(p, PMax)

\* lines 156-157: the guard holds and a fresh Model is built
Rebuild ==
    /\ pc = "loop"
    /\ LoopGuard
    /\ models' = Append(models, [walk_edge |-> FALSE, analyzed |-> 0])
    /\ pc' = "solve"
    /\ UNCHANGED <<p, itr, target_nid, calls, coordFile, snapshots, history, h>>

\* line 156: the guard fails and main() returns
RampDone ==
    /\ pc = "loop"
    /\ ~LoopGuard
    /\ pc' = "CONVERGED_DONE"
    /\ UNCHANGED <<p, itr, target_nid, models, calls, coordFile, snapshots, history, h>>

\* only a negative status taken for a failure
AfterAnalysisNegativeOnly(r) ==
    IF r.raised THEN "SOLVER_EXCEPTION"
    ELSE IF r.ret < 0 THEN "SOLVER_FAILED"
    ELSE "export"

\* the exception swallowed and the step exported
AfterAnalysisNoBreak(r) ==
    IF r.raised THEN "export"
    ELSE IF r.ret # 0 THEN "SOLVER_FAILED"
    ELSE "export"

\* lines 158-167: where main() goes after static_analysis: the except branch,
\* the res != 0 branch, or on to the export
AfterAnalysis(r) ==
    IF r.raised THEN "SOLVER_EXCEPTION"
    ELSE IF r.ret # 0 THEN "SOLVER_FAILED"
    ELSE "export"

\* lines 158-167: static_analysis(model, p) on the Model just built
Analyze ==
    /\ pc = "solve"
    /\ \E outcome \in EngineOutcomes :
        LET m == Len(models)
            r == StaticAnalysis(CreateModel(models[m].walk_edge), p, outcome)
        IN  /\ models' = [models EXCEPT ![m].analyzed = @ + r.analyzed]
            /\ calls' = Append(calls, [model |-> m, p |-> p,
                                       raised |-> r.raised, res |-> r.ret])
            /\ pc' = AfterAnalysis(r)
    /\ UNCHANGED <<p, itr, target_nid, coordFile, snapshots, history, h>>

\* the displacements read from the Model built at startup
SnapshotFileOfModel0(m) ==
    [header |-> <<"Node", "ux", "uy", "uz">>,
     model  |-> 1,
     writes |-> IF itr \in DOMAIN snapshots THEN snapshots[itr].writes + 1 ELSE 1]

\* lines 195-204: the snapshot file of this step, written from Model number m
\* (writes: how often the file of this name has been opened for writing)
SnapshotFile(m) ==
    [header |-> <<"Node", "ux", "uy", "uz">>,
     model  |-> m,
     writes |-> IF itr \in DOMAIN snapshots THEN snapshots[itr].writes + 1 ELSE 1]

\* lines 199-203: the rows of a snapshot file, one per node of the Model it
\* was written from
SnapshotRows(f) ==
    LET model == CreateModel(models[f.model].walk_edge)
    IN  [n \in 1..Cardinality(model.nodes) |->
            <<n, NodeDisp(f.model, n, 1), NodeDisp(f.model, n, 2),
              NodeDisp(f.model, n, 3)>>]

\* the pressure written as it is, without round(p, 3)
HistoryRowUnrounded(m) ==
    <<itr, p, NodeDisp(m, target_nid, 1), NodeDisp(m, target_nid, 2),
      NodeDisp(m, target_nid, 3)>>

\* lines 207-210
HistoryRow(m) ==
    <<itr, Round3(p), NodeDisp(m, target_nid, 1), NodeDisp(m, target_nid, 2),
      NodeDisp(m, target_nid, 3)>>

\* a step index skipped
NextItrSkips == itr + 2

\* line 214
NextItr == itr + 1

\* the pressure recomputed from the counter instead of accumulated
NextPFromCounter == FMulNat(itr, DP)

\* line 215
NextP == FAdd(p, DP)

\* lines 195-215: export of an accepted step; the displacement query of a
\* node the Model does not have raises, outside the try block
Export ==
    /\ pc = "export"
    /\ LET m == Len(models)
       IN  /\ snapshots' = [k \in DOMAIN snapshots \cup {itr} |->
                               IF k = itr THEN SnapshotFile(m) ELSE snapshots[k]]
           /\ IF target_nid \in CreateModel(models[m].walk_edge).nodes
              THEN /\ history' = [history EXCEPT !.rows = Append(@, HistoryRow(m))]
                   /\ itr' = NextItr
                   /\ p' = NextP
                   /\ pc' = "loop"
              ELSE /\ pc' = "UNCAUGHT_EXCEPTION"
                   /\ UNCHANGED <<history, itr, p>>
    /\ UNCHANGED <<target_nid, models, calls, coordFile, h>>

Next == Startup \/ ReadTarget \/ Rebuild \/ RampDone \/ Analyze \/ Export

Spec == Init /\ [][Next]_vars

\* main() is sequential code: a step that can be taken is taken
FairSpec == Spec /\ WF_vars(Next)

MainIdle ==
    /\ pc = "start"
    /\ p = P0
    /\ itr = 1
    /\ target_nid = 0
    /\ models = <<>>
    /\ calls = <<>>
    /\ coordFile = NoFile
    /\ snapshots = <<>>
    /\ history = NoFile

(***************************************************************************)
(* One call of fix_at on an arbitrary small Model.                         *)
(***************************************************************************)
MaxNodes == 2

\* coordinates and targets, in a unit fine enough that 10^9 units is a length
\* of the structure; tolerances in the same unit
FixCoordVals == {0, 1, 1000000001}

FixTargetVals == {0, 1000000000}

FixTols == {-1, 0, 1}

\* the Models of n nodes: any coordinates, node 1 with three DOF fixed before
FixModels(n) ==
    {[nodes |-> 1..n, coord |-> c, eles |-> <<>>,
      fix |-> [k \in 1..n |-> IF k = 1 THEN {1, 2, 3} ELSE {}]] :
        c \in [1..n -> FixCoordVals \X FixCoordVals \X FixCoordVals]}

InitFix ==
    /\ MainIdle
    /\ \E n \in 0..MaxNodes :
        h \in {[pc |-> "call", model |-> m, x0 |-> t[1], y0 |-> t[2], z0 |-> t[3],
                tol |-> tol, result |-> m] :
                    m \in FixModels(n),
                    t \in FixTargetVals \X FixTargetVals \X FixTargetVals,
                    tol \in FixTols}

\* lines 83-92, one call
FixAtCall ==
    /\ h.pc = "call"
    /\ LET r == FixAt(h.model, h.x0, h.y0, h.z0, h.tol)
       IN  h' = [h EXCEPT !.pc = IF r.raised THEN "raised" ELSE "returned",
                          !.result = r.model]
    /\ UNCHANGED mainVars

NextFix == FixAtCall

SpecFix == InitFix /\ [][NextFix]_vars

(***************************************************************************)
(* One call of static_analysis on an arbitrary small Model.                *)
(***************************************************************************)
MaxLoadNodes == 4

MaxEles == 2

\* two-node frame elements and four-node shell elements over nodes 1..n
LoadElements(n) ==
    {[type |-> "PrismFrame", nodes |-> <<a, b>>] : a, b \in 1..n}
    \cup {[type |-> "ShellMITC4", nodes |-> <<a, a + 1, a + 2, a + 3>>] :
            a \in 1..(n - 3)}

\* the Models of MaxLoadNodes nodes and k elements
LoadModels(k) ==
    {[nodes |-> 1..MaxLoadNodes, eles |-> es] :
        es \in [1..k -> LoadElements(MaxLoadNodes)]}

InitLoad ==
    /\ MainIdle
    /\ \E k \in 0..MaxEles :
        h \in {[pc |-> "call", model |-> m, p |-> x] :
                    m \in LoadModels(k), x \in {P0, DP, FAdd(DP, DP)}}

\* lines 100-124, one call
StaticAnalysisCall ==
    /\ h.pc = "call"
    /\ \E outcome \in EngineOutcomes :
        LET r == StaticAnalysis(h.model, h.p, outcome)
        IN  h' = [pc |-> IF r.raised THEN "raised" ELSE "returned",
                  model |-> h.model, p |-> h.p, engine |-> outcome, out |-> r]
    /\ UNCHANGED mainVars

NextLoad == StaticAnalysisCall

SpecLoad == InitLoad /\ [][NextLoad]_vars
(***************************************************************************)
(* Properties of main().                                                   *)
(***************************************************************************)
Running == {"start", "prompt", "loop", "solve", "export"}

Ended == pc \notin Running

\* the double one unit in the last place above x
UlpAbove(x) == Norm(<<x[1], x[2], x[3], x[4] + 2^DropBits(x)>>)

FLt(x, y) == FLe(x, y) /\ x # y

TargetExists == target_nid \in CreateModel(FALSE).nodes

Converged(k) == ~calls[k].raised /\ calls[k].res = 0

\* C1 as stated: the k-th engine invocation gets exactly (k-1)*0.45, and
\* nothing is built or solved at a pressure above 5.0.
C1_ExactMultiples ==
    /\ \A k \in 1..Len(calls) :
        calls[k].p = FMulNat(k - 1, DP) /\ FLe(calls[k].p, PMax)
    /\ pc \in {"solve", "export"} => FLe(p, PMax)

\* C1 (amended): the k-th engine invocation gets the running float sum of k-1
\* additions of 0.45: it reads (k-1)*0.45 to three decimals, is exactly the
\* double (k-1)*0.45 for k <= 7 and the next double above it for k = 8..12;
\* nothing is built or solved at a pressure above 5.0.
C1_RampPressures ==
    /\ \A k \in 1..Len(calls) :
        /\ Thousandths(calls[k].p) = (k - 1) * Thousandths(DP)
        /\ k <= 7 => calls[k].p = FMulNat(k - 1, DP)
        /\ k >= 8 => calls[k].p = UlpAbove(FMulNat(k - 1, DP))
        /\ FLe(calls[k].p, PMax)
    /\ pc \in {"solve", "export"} => FLe(p, PMax)

\* twelve steps were solved and the ramp stopped before 5.40
C1_Witness ==
    /\ pc = "CONVERGED_DONE"
    /\ Len(calls) = 12
    /\ Thousandths(p) = 5400

\* C2 as stated: an engine that returns 0 on every call leaves, at the end of
\* the run, snapshot files 1..12 and 12 history rows, iteration and pressure
\* strictly increasing, pressures from 0.0 to 4.95.
C2_Files ==
    /\ DOMAIN snapshots = 1..12
    /\ Len(history.rows) = 12
    /\ \A i \in 1..11 :
        /\ history.rows[i][1] < history.rows[i + 1][1]
        /\ FLt(history.rows[i][2], history.rows[i + 1][2])
    /\ history.rows[1][1] = 1 /\ history.rows[12][1] = 12
    /\ history.rows[1][2] = P0
    /\ history.rows[12][2] = FromThousandths(4950)
    /\ \A k \in 1..12 : Thousandths(calls[k].p) = 450 * (k - 1)

C2_AllConverged ==
    (Ended /\ \A k \in 1..Len(calls) : Converged(k)) => C2_Files

\* C2 (amended): the same, for a tracked node that is a node of the Model.
C2_AllConvergedTracked ==
    (Ended /\ TargetExists /\ \A k \in 1..Len(calls) : Converged(k)) => C2_Files

C2_Witness ==
    /\ pc = "CONVERGED_DONE"
    /\ TargetExists
    /\ \A k \in 1..Len(calls) : Converged(k)
    /\ Len(history.rows) = 12

\* C3: when the k-th engine call is the first to return a non-zero status,
\* main() has ended there without raising, with snapshot files 1..k-1,
\* k-1 history rows and nothing exported for step k.
C3_NonZeroStops ==
    \A k \in 1..Len(calls) :
        (~calls[k].raised /\ calls[k].res # 0) =>
            /\ k = Len(calls)
            /\ \A j \in 1..(k - 1) : Converged(j)
            /\ pc = "SOLVER_FAILED"
            /\ DOMAIN snapshots = 1..(k - 1)
            /\ Len(history.rows) = k - 1
            /\ \A i \in 1..(k - 1) : history.rows[i][1] = i

\* the case of the third call: 2 snapshot files and 2 history rows
C3_Witness ==
    /\ Len(calls) = 3
    /\ ~calls[3].raised /\ calls[3].res # 0
    /\ Cardinality(DOMAIN snapshots) = 2
    /\ Len(history.rows) = 2

C4_Inv ==
    /\ \A k \in 1..Len(calls) :
        calls[k].raised =>
            /\ k = Len(calls)
            /\ pc = "SOLVER_EXCEPTION"
            /\ DOMAIN snapshots = 1..(k - 1)
            /\ Len(history.rows) = k - 1
    /\ pc # "start" =>
        /\ coordFile.exists
        /\ Len(CoordRows(coordFile)) = (nx + 1) * (ny + 1)
        /\ \A n \in 1..Len(CoordRows(coordFile)) :
            CoordRows(coordFile)[n] =
                <<n, SurfaceCoord(n)[1], SurfaceCoord(n)[2], SurfaceCoord(n)[3]>>

\* C4: when the k-th engine call raises, main() ends there without
\* propagating it, with nothing written for step k and the files of steps
\* 1..k-1 as they were (for k = 1: no snapshot file, no history row); the
\* coordinates file written at startup exists and never changes afterwards.
C4_RaiseStops ==
    /\ []C4_Inv
    /\ [][/\ pc # "start" => coordFile' = coordFile
          /\ pc' = "SOLVER_EXCEPTION" =>
                /\ snapshots' = snapshots
                /\ history' = history]_vars

\* the engine raised on its first call
C4_Witness ==
    /\ Len(calls) = 1
    /\ calls[1].raised
    /\ pc = "SOLVER_EXCEPTION"
    /\ snapshots = <<>>
    /\ history.rows = <<>>
    /\ coordFile.exists
Terminal == {"CONVERGED_DONE", "SOLVER_FAILED", "SOLVER_EXCEPTION"}

\* C5 as stated, the part a finite run decides: whenever main() has ended,
\* the driver is in CONVERGED_DONE, SOLVER_FAILED or SOLVER_EXCEPTION.
C5_EndsInTerminalState == Ended => pc \in Terminal

C5_Safety ==
    /\ Len(calls) <= 12
    /\ \A k \in 1..Len(calls) : ~Converged(k) => k = Len(calls)
    /\ pc = "CONVERGED_DONE" => \A k \in 1..Len(calls) : Converged(k)
    /\ pc = "SOLVER_FAILED" =>
            ~calls[Len(calls)].raised /\ calls[Len(calls)].res # 0
    /\ pc = "SOLVER_EXCEPTION" => calls[Len(calls)].raised
    /\ pc \in {"solve", "export"} => Len(models) = Len(calls) + 1 + (IF pc = "solve" THEN 1 ELSE 0)

\* C5 (amended): with a tracked node that is a node of the Model, the driver
\* leaves the ramp and ends in exactly one of CONVERGED_DONE, SOLVER_FAILED,
\* SOLVER_EXCEPTION, after at most 12 engine invocations; the first non-zero
\* status or exception is the last invocation; once main() has ended, no
\* Model is built, no engine call made and no file written.
C5_Terminates ==
    /\ []((pc = "loop" /\ TargetExists) => <>(pc \in Terminal))
    /\ []C5_Safety
    /\ []((Ended /\ TargetExists) => pc \in Terminal)
    /\ [][Ended => UNCHANGED <<pc, models, calls, snapshots, history, coordFile>>]_vars

\* the run ended on the failure of the fifth call, four steps exported
C5_Witness ==
    /\ pc = "SOLVER_FAILED"
    /\ TargetExists
    /\ Len(calls) = 5
    /\ Len(history.rows) = 4

\* C6 as stated, at the end of a run: every Model created was passed to the
\* engine exactly once.
C6_EveryModelSolvedOnce ==
    Ended => \A i \in 1..Len(models) : models[i].analyzed = 1

\* C6 (amended): no Model is passed to the engine more than once; every Model
\* built inside the loop is passed to it exactly once (the Model built at
\* startup never: it is only read for the coordinates file); the k-th call
\* solves the Model built in iteration k, and every displacement written for
\* step k, in the snapshot file and in the history row, is read from it.
C6_SingleUse ==
    /\ \A i \in 1..Len(models) :
        /\ models[i].analyzed <= 1
        /\ i = 1 => models[i].analyzed = 0
        /\ (i >= 2 /\ (i < Len(models) \/ pc # "solve")) => models[i].analyzed = 1
    /\ pc # "start" => coordFile.model = 1
    /\ \A k \in 1..Len(calls) : calls[k].model = k + 1
    /\ \A k \in DOMAIN snapshots :
        /\ snapshots[k].model = k + 1
        /\ Len(SnapshotRows(snapshots[k])) = (nx + 1) * (ny + 1)
        /\ \A n \in 1..Len(SnapshotRows(snapshots[k])) :
            SnapshotRows(snapshots[k])[n] =
                <<n, NodeDisp(k + 1, n, 1), NodeDisp(k + 1, n, 2), NodeDisp(k + 1, n, 3)>>
    /\ \A k \in 1..Len(history.rows) :
        /\ history.rows[k][3] = NodeDisp(k + 1, target_nid, 1)
        /\ history.rows[k][4] = NodeDisp(k + 1, target_nid, 2)
        /\ history.rows[k][5] = NodeDisp(k + 1, target_nid, 3)

\* three steps exported, the fourth Model of the loop built and not yet solved
C6_Witness ==
    /\ pc = "solve"
    /\ Len(models) = 5
    /\ Len(history.rows) = 3
    /\ Cardinality(DOMAIN snapshots) = 3

\* C9 as stated: a Model built with walk_edge = False, as main() builds all of
\* them, has no perimeter frame element.
C9_NoFramesByDefault ==
    \A i \in 1..Len(models) :
        ~models[i].walk_edge =>
            FrameElements(CreateModel(models[i].walk_edge)) = {}

C10_LoopHead ==
    pc = "loop" =>
        /\ DOMAIN snapshots = 1..(itr - 1)
        /\ Len(history.rows) = itr - 1
        /\ \A i \in 1..Len(history.rows) :
            /\ history.rows[i][1] = i
            /\ history.rows[i][2] = FMulNat(i - 1, DP)

C10_Files ==
    /\ \A k \in DOMAIN snapshots : snapshots[k].writes = 1
    /\ \A k \in DOMAIN snapshots : k \in 1..12

C10_AppendOnly ==
    /\ history.exists =>
        /\ history'.exists
        /\ Len(history'.rows) >= Len(history.rows)
        /\ SubSeq(history'.rows, 1, Len(history.rows)) = history.rows
        /\ history'.header = history.header
    /\ \A k \in DOMAIN snapshots :
        k \in DOMAIN snapshots' /\ snapshots'[k] = snapshots[k]

\* C10 as stated, the loop-head part: files 1..itr-1, itr-1 rows, row i with
\* iteration i and pressure (i-1)*dp, and p exactly (itr-1)*dp.
C10_LoopHeadExact ==
    /\ C10_LoopHead
    /\ pc = "loop" => p = FMulNat(itr - 1, DP)

\* C10 (amended): at every loop head the snapshot files are exactly 1..itr-1,
\* the history has itr-1 rows, row i carries iteration i and pressure
\* (i-1)*dp, and p is the running float sum, which reads (itr-1)*dp to three
\* decimals and is the double (itr-1)*dp or the next one above it; rows once
\* written never change, and no snapshot file is written twice.
C10_Accumulation ==
    /\ []C10_LoopHead
    /\ [](pc = "loop" =>
            /\ Round3(p) = FMulNat(itr - 1, DP)
            /\ p \in {FMulNat(itr - 1, DP), UlpAbove(FMulNat(itr - 1, DP))}
            /\ itr <= 7 => p = FMulNat(itr - 1, DP))
    /\ []C10_Files
    /\ [][C10_AppendOnly]_vars

\* the loop head after the eighth step, where p has left the exact multiple
C10_Witness ==
    /\ pc = "loop"
    /\ itr = 9
    /\ Len(history.rows) = 8
    /\ p # FMulNat(8, DP)
(***************************************************************************)
(* Properties of fix_at (SpecFix) and of static_analysis (SpecLoad).       *)
(***************************************************************************)
FixCalled == h.pc \in {"returned", "raised"}

FixTarget == <<h.x0, h.y0, h.z0>>

\* nodes within tol of the target on every axis
WithinTol ==
    {n \in h.model.nodes :
        \A c \in 1..3 : Abs(h.model.coord[n][c] - FixTarget[c]) <= h.tol}

\* nodes within the larger of tol and 1e-9 times the larger magnitude, on
\* every axis
WithinTolOrRelative ==
    {n \in h.model.nodes :
        \A c \in 1..3 :
            Abs(h.model.coord[n][c] - FixTarget[c])
                <= Max(h.tol, Max(Abs(h.model.coord[n][c]), Abs(FixTarget[c]))
                                \div 1000000000)}

FixedExactly(S) ==
    /\ h.result.nodes = h.model.nodes
    /\ h.result.coord = h.model.coord
    /\ \A n \in h.model.nodes :
        h.result.fix[n] = IF n \in S THEN DOFs ELSE h.model.fix[n]
    /\ S = {} => h.result = h.model

LoadCalled == h.pc \in {"returned", "raised"}

\* the (element, slot) pairs of the Model that reference node n
SlotsOf(n) ==
    UNION {{<<e, k>> : k \in {j \in 1..Len(h.model.eles[e].nodes) :
                                h.model.eles[e].nodes[j] = n}} :
            e \in 1..Len(h.model.eles)}

\* the load commands issued on node n
LoadsOn(n) ==
    {s \in LoadSlots(h.out.loads) : h.out.loads[s[1]][s[2]].node = n}

\* C8: one load (0, -p, 0, 0, 0, 0) per (element, node slot), so a node gets
\* as many as there are slots that reference it (none when no element does);
\* one analysis step per call, and its status is what the call returns.
C8_LoadPerIncidence ==
    LoadCalled =>
        /\ \A n \in h.model.nodes :
            Cardinality(LoadsOn(n)) = Cardinality(SlotsOf(n))
        /\ \A s \in LoadSlots(h.out.loads) :
            /\ h.out.loads[s[1]][s[2]].node \in h.model.nodes
            /\ h.out.loads[s[1]][s[2]].force =
                <<FZero, [neg |-> TRUE, mag |-> h.p], FZero, FZero, FZero, FZero>>
        /\ Len(h.out.loads) = Len(h.model.eles)
        /\ h.out.analyzed = 1
        /\ h.pc = "returned" <=> ~h.engine.raise
        /\ h.pc = "returned" => h.out.ret = h.engine.status

\* a node loaded three times (a shell and a frame twice), one loaded by no
\* element, and a non-zero status handed back
C8_Witness ==
    /\ h.pc = "returned"
    /\ h.out.ret = -3
    /\ h.p = DP
    /\ \E n \in h.model.nodes : Cardinality(LoadsOn(n)) = 3
    /\ \E n \in h.model.nodes : Cardinality(LoadsOn(n)) = 0
=============================================================================
